---- MODULE Spec2Model ----
(***************************************************************************)
(* Model of updiff.py: the changeset parser (Ftp.diff), the ignore list    *)
(* (Ftp.ignore), the remote session (Ftp.connect/cwd/mkd/delete/upload/    *)
(* disconnect) and the per-record loop (Ftp.process), driven by __main__.  *)
(*                                                                         *)
(* A Python string is modelled as a sequence of atoms.  An atom is one of  *)
(*   "/"            the path separator,                                    *)
(*   " ", "\t"     a whitespace character,                                *)
(*   "\n"           the line terminator,                                   *)
(*   anything else  a non-empty run of characters that holds neither a     *)
(*                  separator nor whitespace ("f", "updiff.ini").          *)
(* An atom of one alphabetic character is a letter for the regex [a-z].    *)
(***************************************************************************)
EXTENDS Integers, Sequences, FiniteSets, TLC

(* ------------------------------ bounds -------------------------------- *)
MaxLines == 3      \* lines of the changeset text drawn in Init
MaxFaults == 1     \* transport failures the remote side may inject per run
MaxText == 8       \* atoms of the raw text drawn in InitParse
MaxCalls == 4      \* calls a client makes on one Ftp object in SpecSession

(* ------------------------- program constants -------------------------- *)
SETTINGS == <<"updiff.ini">>
IGNORE == <<"updiff.ignore">>
DIFF == <<"updiff.files">>
SELF == <<"updiff.py">>

(* --------------------------- string helpers --------------------------- *)
SEP == "/"
NL == "\n"
IsSpace(c) == c \in {" ", "\t", "\n"}
Alpha == {"A", "M", "D", "R", "d", "m", "a", "b", "f", "g"}
IsLetter(c) == c \in Alpha

Last(s) == s[Len(s)]

\* index of the last separator of p, 0 when there is none (str.rfind + 1)
RFindSep(p) ==
    IF \E i \in 1..Len(p) : p[i] = SEP
    THEN CHOOSE i \in 1..Len(p) : p[i] = SEP /\ \A j \in (i+1)..Len(p) : p[j] # SEP
    ELSE 0

RECURSIVE RStripSep(_)
RStripSep(s) ==
    IF Len(s) > 0 /\ Last(s) = SEP THEN RStripSep(SubSeq(s, 1, Len(s) - 1)) ELSE s

\* posixpath.split: <<head, tail>>
PosixSplit(p) ==
    LET i == RFindSep(p)
        head == SubSeq(p, 1, i)
        tail == SubSeq(p, i + 1, Len(p))
    IN  IF Len(head) > 0 /\ (\E j \in 1..Len(head) : head[j] # SEP)
        THEN <<RStripSep(head), tail>>
        ELSE <<head, tail>>

\* posixpath.join(a, b)
PosixJoin(a, b) ==
    IF Len(b) > 0 /\ b[1] = SEP THEN b
    ELSE IF Len(a) = 0 \/ Last(a) = SEP THEN a \o b
    ELSE a \o <<SEP>> \o b

\* str.split(sep) for a one-atom separator
RECURSIVE StrSplit(_, _)
StrSplit(s, sep) ==
    IF \A i \in 1..Len(s) : s[i] # sep THEN <<s>>
    ELSE LET i == CHOOSE k \in 1..Len(s) : s[k] = sep /\ \A j \in 1..(k-1) : s[j] # sep
         IN  <<SubSeq(s, 1, i - 1)>> \o StrSplit(SubSeq(s, i + 1, Len(s)), sep)

\* str.strip()
RECURSIVE Strip(_)
Strip(s) ==
    IF Len(s) > 0 /\ IsSpace(s[1]) THEN Strip(Tail(s))
    ELSE IF Len(s) > 0 /\ IsSpace(Last(s)) THEN Strip(SubSeq(s, 1, Len(s) - 1))
    ELSE s

InList(x, list) == \E i \in 1..Len(list) : list[i] = x

(* ------------------------------ Ftp.diff ------------------------------ *)
\* rx = '^([a-z])\s+(\S+)$' with re.I; RxEnd is the last atom of the \s+ run
RxLetter(c) == IsLetter(c)
RxEnd(line) ==
    CHOOSE k \in 1..Len(line) :
        /\ \A j \in 2..k : IsSpace(line[j])
        /\ (k = Len(line) \/ ~IsSpace(line[k + 1]))
RxMatch(line) ==
    /\ Len(line) >= 3
    /\ RxLetter(line[1])
    /\ RxEnd(line) >= 2
    /\ RxEnd(line) < Len(line)
    /\ \A j \in (RxEnd(line) + 1)..Len(line) : ~IsSpace(line[j])
RxGroups(line) == <<line[1], SubSeq(line, RxEnd(line) + 1, Len(line))>>

\* mutant: a record already parsed is not appended again
RECURSIVE DiffLoopDedup(_, _)
DiffLoopDedup(lines, acc) ==
    IF lines = <<>> THEN acc
    ELSE DiffLoopDedup(Tail(lines),
                       IF RxMatch(Head(lines)) /\ ~InList(RxGroups(Head(lines)), acc)
                       THEN Append(acc, RxGroups(Head(lines))) ELSE acc)

RECURSIVE DiffLoop(_, _)
DiffLoop(lines, acc) ==
    IF lines = <<>> THEN acc
    ELSE DiffLoop(Tail(lines),
                  IF RxMatch(Head(lines)) THEN Append(acc, RxGroups(Head(lines))) ELSE acc)

DiffParse(fs, text) == DiffLoop(StrSplit(text, NL), fs)

(* ----------------------------- Ftp.ignore ----------------------------- *)
\* the ignore file: whether it exists, and its lines as readlines() gives them
IgnoreLines(file) ==
    IF file.exists THEN [i \in 1..Len(file.lines) |-> Strip(file.lines[i])] ELSE <<>>

IgnoreAppend(list, diff_file) ==
    LET l == Append(Append(list, SELF), IGNORE)
    IN  IF diff_file # <<>> THEN Append(l, diff_file) ELSE l

IgnoreLoad(file, diff_file) == IgnoreAppend(IgnoreLines(file), diff_file)

(* --------------------------- Ftp._full_path --------------------------- *)
\* mutant: the path is not joined to the project directory
FullPathRelative(d, path) == IF path # <<>> THEN path ELSE d
FullPath(d, path) == IF path # <<>> THEN PosixJoin(d, path) ELSE d

(* ------------------------- the remote side ---------------------------- *)
\* the directory a CWD/MKD/DELE/STOR argument names, seen from cursor cur
RemoteNorm(p) == IF \A j \in 1..Len(p) : p[j] = SEP THEN <<SEP>> ELSE RStripSep(p)
RemoteResolve(cur, arg) ==
    IF arg = <<>> \/ arg = <<".">> THEN cur ELSE RemoteNorm(PosixJoin(cur, arg))

(* ------------------------- handlers' decisions ------------------------ *)
\* mutant: every failure of the change of directory counts as not found
CwdReturnLenient(out) == IF out = "OK" THEN "True" ELSE "False"
\* Ftp.cwd: True, False (550) or the exception is raised again
CwdReturn(out) == IF out = "OK" THEN "True" ELSE IF out = "E550" THEN "False" ELSE "raise"
\* mutant: a segment that cannot be entered is never created
MkdOnCwdFailReport(out) == "report"
\* mutant: a segment that cannot be entered is created whatever the failure
MkdOnCwdFailMake(out) == "make"
\* Ftp.mkd, the except branch of the per-segment cwd
MkdOnCwdFail(out) == IF out = "E550" THEN "make" ELSE "report"
\* mutant: a delete answered 550 is raised like any other failure
DeleteReturnStrict(out) == IF out = "OK" THEN "None" ELSE "raise"
\* Ftp.delete
DeleteReturn(out) == IF out = "OK" THEN "None" ELSE IF out = "E550" THEN "False" ELSE "raise"
\* Ftp.upload
UploadReturn(out) == IF out = "OK" THEN "None" ELSE "raise"
\* Ftp.process, the checks of one record
IgnoreFile(file, list) == InList(file[2], list)
IgnoreDir(file, list) == InList(PosixJoin(PosixSplit(file[2])[1], <<>>), list)
\* mutant: only the file-level test
SkippedFileOnly(file, list) == IgnoreFile(file, list)
\* mutant: only the directory-level test
SkippedDirOnly(file, list) == IgnoreDir(file, list)
Skipped(file, list) == IgnoreFile(file, list) \/ IgnoreDir(file, list)
\* mutant: the working directory is not compared
DirDifferNever(fp, pwd) == FALSE
DirDiffer(fp, pwd) == fp # pwd
IsDelete(file) == file[1] = "D"

(* ------------------------------- state -------------------------------- *)
VARIABLES
    pc,          \* position of __main__ / Ftp.process / Ftp.mkd
    diffs,       \* the raw changeset text Diff.get returns
    ignoreFile,  \* the file updiff.ignore
    diffFile,    \* config.diff, <<>> when no -d was given
    files,       \* Ftp._files
    ignoreList,  \* Ftp._ignore
    dir,         \* Ftp._dir
    ftp,         \* Ftp._ftp: "None" or "FTP"
    idx,         \* position of the for loop of Ftp.process
    segs,        \* path.split('/') of the running Ftp.mkd
    k,           \* position of the for loop of Ftp.mkd
    rdirs,       \* directories of the remote side
    rfiles,      \* files of the remote side
    rcwd,        \* current directory of the remote session
    faults,      \* failures injected so far
    log          \* history: the commands sent to the remote side, with their answers

vars == <<pc, diffs, ignoreFile, diffFile, files, ignoreList, dir, ftp, idx,
          segs, k, rdirs, rfiles, rcwd, faults, log>>

(* ------------------------------- inputs ------------------------------- *)
FtpDir == <<"w">>                      \* config['dir']
ROOT == <<SEP, "w">>

Lines ==
    { <<"M", " ", "f">>,
      <<"D", " ", "a", SEP, "f">>,
      <<"d", " ", "a", SEP, "f">>,
      <<"A", "\t", "a", SEP, "b", SEP, "g">>,
      <<"M", " ", "updiff.ini">>,
      <<>> }

RECURSIVE JoinNL(_)
JoinNL(ls) ==
    IF ls = <<>> THEN <<>>
    ELSE IF Len(ls) = 1 THEN ls[1]
    ELSE ls[1] \o <<NL>> \o JoinNL(Tail(ls))

DiffTexts == { JoinNL(ls) : ls \in UNION { [1..n -> Lines] : n \in 0..MaxLines } }

IgnoreFiles ==
    { [exists |-> FALSE, lines |-> <<>>],
      [exists |-> TRUE,  lines |-> << <<"a", SEP, NL>> >>],
      [exists |-> TRUE,  lines |-> << <<"a", SEP, "f", NL>>, <<NL>> >>] }

DiffFiles == { <<>>, DIFF }

Remotes ==
    { [d |-> {<<SEP>>, ROOT}, f |-> {}],
      [d |-> {<<SEP>>, ROOT, ROOT \o <<SEP, "a">>}, f |-> {ROOT \o <<SEP, "a", SEP, "f">>}],
      [d |-> {<<SEP>>, ROOT, ROOT \o <<SEP, "a">>, ROOT \o <<SEP, "a", SEP, "b">>}, f |-> {}] }

Init ==
    /\ pc = "settings"
    /\ diffs \in DiffTexts
    /\ ignoreFile \in IgnoreFiles
    /\ diffFile \in DiffFiles
    /\ files = <<>>
    /\ ignoreList = <<SETTINGS, IGNORE, DIFF>>
    /\ dir = <<>>
    /\ ftp = "None"
    /\ idx = 0
    /\ segs = <<>>
    /\ k = 0
    /\ \E r \in Remotes : rdirs = r.d /\ rfiles = r.f
    /\ rcwd = <<SEP>>
    /\ faults = 0
    /\ log = <<>>

(* ----------------------- remote command outcomes ---------------------- *)
\* the answer the remote side gives by itself, and the answers it can give
Natural(exists) == IF exists THEN "OK" ELSE "E550"
Outs(nat) == {nat} \cup (IF faults < MaxFaults THEN {"EOther", "E550"} ELSE {})
PwdOuts == {"OK"} \cup (IF faults < MaxFaults THEN {"EOther"} ELSE {})
Count(nat, out) == faults' = faults + (IF out = nat THEN 0 ELSE 1)
\* a command: the place of the code that sent it, the record of the loop, the
\* remote cursor it was sent at and the answer
Sent(site, op, arg, out) ==
    [site |-> site, op |-> op, arg |-> arg, rec |-> idx, at |-> rcwd, out |-> out]

(* ------------------------------ __main__ ------------------------------ *)
\* Settings(): the section of updiff.ini is there, or ValueError
Settings ==
    /\ pc = "settings"
    /\ \E present \in BOOLEAN : pc' = IF present THEN "diff" ELSE "aborted"
    /\ UNCHANGED <<diffs, ignoreFile, diffFile, files, ignoreList, dir, ftp, idx,
                   segs, k, rdirs, rfiles, rcwd, faults, log>>

\* Diff.get, then f.diff(diff)
Diff ==
    /\ pc = "diff"
    /\ \E readable \in BOOLEAN :
          IF readable
          THEN files' = DiffParse(files, diffs) /\ pc' = "ignore"
          ELSE files' = files /\ pc' = "aborted"
    /\ UNCHANGED <<diffs, ignoreFile, diffFile, ignoreList, dir, ftp, idx,
                   segs, k, rdirs, rfiles, rcwd, faults, log>>

\* f.ignore(config.diff)
Ignore ==
    /\ pc = "ignore"
    /\ ignoreList' = IgnoreLoad(ignoreFile, diffFile)
    /\ pc' = "connect"
    /\ UNCHANGED <<diffs, ignoreFile, diffFile, files, dir, ftp, idx,
                   segs, k, rdirs, rfiles, rcwd, faults, log>>

\* mutant: a failure of connect, login or cwd is printed and not raised
ConnectGoesOn ==
    /\ pc = "connect"
    /\ dir' = PosixJoin(<<SEP>>, FtpDir)
    /\ ftp' = "FTP"
    /\ \E out \in {"OK", "connect", "login", "cwd"} :
          /\ pc' = "process"
          /\ rcwd' = IF out = "OK" /\ RemoteNorm(dir') \in rdirs THEN RemoteNorm(dir') ELSE rcwd
          /\ log' = IF out \in {"OK", "cwd"}
                    THEN Append(log, Sent("connect", "cwd", dir',
                                IF out = "OK" THEN Natural(RemoteNorm(dir') \in rdirs) ELSE "EOther"))
                    ELSE log
    /\ idx' = 1
    /\ UNCHANGED <<diffs, ignoreFile, diffFile, files, ignoreList,
                   segs, k, rdirs, rfiles, faults>>

\* f.connect(config['dir']): connect, login, cwd into the project directory
Connect ==
    /\ pc = "connect"
    /\ dir' = PosixJoin(<<SEP>>, FtpDir)
    /\ ftp' = "FTP"
    /\ \E out \in {"OK", "connect", "login", "cwd"} :
          /\ pc' = IF out = "OK" /\ RemoteNorm(dir') \in rdirs THEN "process" ELSE "aborted"
          /\ rcwd' = IF out = "OK" /\ RemoteNorm(dir') \in rdirs THEN RemoteNorm(dir') ELSE rcwd
          /\ log' = IF out \in {"OK", "cwd"}
                    THEN Append(log, Sent("connect", "cwd", dir',
                                IF out = "OK" THEN Natural(RemoteNorm(dir') \in rdirs) ELSE "EOther"))
                    ELSE log
    /\ idx' = 1
    /\ UNCHANGED <<diffs, ignoreFile, diffFile, files, ignoreList,
                   segs, k, rdirs, rfiles, faults>>

(* ----------------------------- Ftp.process ---------------------------- *)
File == files[idx]
Path == PosixSplit(File[2])[1]
\* mutant: the whole path is taken as the remote name
NameWholePath == File[2]
Name == PosixSplit(File[2])[2]

\* the for loop is exhausted: f.process() returns
ProcessEnd ==
    /\ pc = "process"
    /\ idx > Len(files)
    /\ pc' = "disconnect"
    /\ UNCHANGED <<diffs, ignoreFile, diffFile, files, ignoreList, dir, ftp, idx,
                   segs, k, rdirs, rfiles, rcwd, faults, log>>

\* IGNORING FILE / IGNORING DIR: continue
ProcessSkip ==
    /\ pc = "process"
    /\ idx <= Len(files)
    /\ Skipped(File, ignoreList)
    /\ idx' = idx + 1
    /\ UNCHANGED <<pc, diffs, ignoreFile, diffFile, files, ignoreList, dir, ftp,
                   segs, k, rdirs, rfiles, rcwd, faults, log>>

\* if not self.cwd(path): ...
ProcessCwd ==
    /\ pc = "process"
    /\ idx <= Len(files)
    /\ ~Skipped(File, ignoreList)
    /\ LET fp == FullPath(dir, Path)
           nat == Natural(RemoteNorm(fp) \in rdirs)
       IN  \E out \in Outs(nat) :
              /\ Count(nat, out)
              /\ log' = Append(log, Sent("process", "cwd", fp, out))
              /\ rcwd' = IF out = "OK" THEN RemoteNorm(fp) ELSE rcwd
              /\ pc' = CASE CwdReturn(out) = "True" -> "check"
                         [] CwdReturn(out) = "False" -> "mkd"
                         [] OTHER -> "aborted"
    /\ UNCHANGED <<diffs, ignoreFile, diffFile, files, ignoreList, dir, ftp, idx,
                   segs, k, rdirs, rfiles>>

(* ------------------------------- Ftp.mkd ------------------------------ *)
\* self._ftp.cwd(self._dir); pwd = self._ftp.pwd(), both outside the try
MkdRoot ==
    /\ pc = "mkd"
    /\ LET nat == Natural(RemoteNorm(dir) \in rdirs)
       IN  \E out \in Outs(nat), pw \in PwdOuts :
              /\ out # "OK" => pw = "OK"
              /\ faults' = faults + (IF out = nat THEN 0 ELSE 1) + (IF pw = "OK" THEN 0 ELSE 1)
              /\ faults' <= MaxFaults
              /\ log' = IF out = "OK"
                        THEN log \o <<Sent("mkd", "cwd", dir, out),
                                      [Sent("mkd", "pwd", <<>>, pw) EXCEPT !.at = RemoteNorm(dir)]>>
                        ELSE Append(log, Sent("mkd", "cwd", dir, out))
              /\ rcwd' = IF out = "OK" THEN RemoteNorm(dir) ELSE rcwd
              /\ pc' = IF out = "OK" /\ pw = "OK" THEN "mkd_loop" ELSE "aborted"
    /\ segs' = StrSplit(Path, SEP)
    /\ k' = 1
    /\ UNCHANGED <<diffs, ignoreFile, diffFile, files, ignoreList, dir, ftp, idx,
                   rdirs, rfiles>>

\* for elem in path.split('/') is exhausted: mkd returns
MkdEnd ==
    /\ pc = "mkd_loop"
    /\ k > Len(segs)
    /\ pc' = "check"
    /\ UNCHANGED <<diffs, ignoreFile, diffFile, files, ignoreList, dir, ftp, idx,
                   segs, k, rdirs, rfiles, rcwd, faults, log>>

\* try: self._ftp.cwd(elem)
MkdElemCwd ==
    /\ pc = "mkd_loop"
    /\ k <= Len(segs)
    /\ LET elem == segs[k]
           target == RemoteResolve(rcwd, elem)
           nat == Natural(target \in rdirs)
       IN  \E out \in Outs(nat) :
              /\ Count(nat, out)
              /\ log' = Append(log, Sent("mkd.cwd", "cwd", elem, out))
              /\ rcwd' = IF out = "OK" THEN target ELSE rcwd
              /\ IF out = "OK" THEN pc' = "mkd_loop" /\ k' = k + 1
                 ELSE IF MkdOnCwdFail(out) = "make" THEN pc' = "mkd_make" /\ k' = k
                 ELSE pc' = "mkd_loop" /\ k' = k + 1
    /\ UNCHANGED <<diffs, ignoreFile, diffFile, files, ignoreList, dir, ftp, idx,
                   segs, rdirs, rfiles>>

\* self._ftp.mkd(elem)
MkdElemMake ==
    /\ pc = "mkd_make"
    /\ LET elem == segs[k]
           target == RemoteResolve(rcwd, elem)
           nat == Natural(target \notin rdirs)
       IN  \E out \in Outs(nat) :
              /\ Count(nat, out)
              /\ log' = Append(log, Sent("mkd.mkd", "mkd", elem, out))
              /\ rdirs' = IF out = "OK" THEN rdirs \cup {target} ELSE rdirs
              /\ pc' = IF out = "OK" THEN "mkd_enter" ELSE "aborted"
    /\ UNCHANGED <<diffs, ignoreFile, diffFile, files, ignoreList, dir, ftp, idx,
                   segs, k, rfiles, rcwd>>

\* self._ftp.cwd(elem); continue
MkdElemEnter ==
    /\ pc = "mkd_enter"
    /\ LET elem == segs[k]
           target == RemoteResolve(rcwd, elem)
           nat == Natural(target \in rdirs)
       IN  \E out \in Outs(nat) :
              /\ Count(nat, out)
              /\ log' = Append(log, Sent("mkd.enter", "cwd", elem, out))
              /\ rcwd' = IF out = "OK" THEN target ELSE rcwd
              /\ pc' = IF out = "OK" THEN "mkd_loop" ELSE "aborted"
              /\ k' = IF out = "OK" THEN k + 1 ELSE k
    /\ UNCHANGED <<diffs, ignoreFile, diffFile, files, ignoreList, dir, ftp, idx,
                   segs, rdirs, rfiles>>

(* ------------------- Ftp.process, after the directory ------------------ *)
\* fp = self._full_path(path); pwd = self._ftp.pwd(); if fp != pwd: raise
Check ==
    /\ pc = "check"
    /\ \E pw \in PwdOuts :
          /\ Count("OK", pw)
          /\ log' = Append(log, Sent("check", "pwd", <<>>, pw))
          /\ pc' = IF pw # "OK" THEN "aborted"
                   ELSE IF DirDiffer(FullPath(dir, Path), rcwd) THEN "aborted"
                   ELSE "dispatch"
    /\ UNCHANGED <<diffs, ignoreFile, diffFile, files, ignoreList, dir, ftp, idx,
                   segs, k, rdirs, rfiles, rcwd>>

\* self.delete(name)
Delete ==
    /\ pc = "dispatch"
    /\ IsDelete(File)
    /\ LET target == PosixJoin(rcwd, Name)
           nat == Natural(target \in rfiles)
       IN  \E pw \in PwdOuts, out \in Outs(nat) :
              /\ pw # "OK" => out = nat
              /\ faults' = faults + (IF out = nat THEN 0 ELSE 1) + (IF pw = "OK" THEN 0 ELSE 1)
              /\ faults' <= MaxFaults
              /\ log' = IF pw = "OK"
                        THEN log \o <<Sent("delete", "pwd", <<>>, pw), Sent("delete", "dele", Name, out)>>
                        ELSE Append(log, Sent("delete", "pwd", <<>>, pw))
              /\ rfiles' = IF pw = "OK" /\ out = "OK" THEN rfiles \ {target} ELSE rfiles
              /\ IF pw = "OK" /\ DeleteReturn(out) # "raise"
                 THEN pc' = "process" /\ idx' = idx + 1
                 ELSE pc' = "aborted" /\ idx' = idx
    /\ UNCHANGED <<diffs, ignoreFile, diffFile, files, ignoreList, dir, ftp,
                   segs, k, rdirs, rcwd>>

\* self.upload(file[1], name); a failure to open the local file is a failure
\* of the upload as well
Upload ==
    /\ pc = "dispatch"
    /\ ~IsDelete(File)
    /\ LET target == PosixJoin(rcwd, Name)
       IN  \E pw \in PwdOuts, out \in Outs("OK") :
              /\ pw # "OK" => out = "OK"
              /\ faults' = faults + (IF out = "OK" THEN 0 ELSE 1) + (IF pw = "OK" THEN 0 ELSE 1)
              /\ faults' <= MaxFaults
              /\ log' = IF pw = "OK"
                        THEN log \o <<Sent("upload", "pwd", <<>>, pw), Sent("upload", "stor", <<File[2], Name>>, out)>>
                        ELSE Append(log, Sent("upload", "pwd", <<>>, pw))
              /\ rfiles' = IF pw = "OK" /\ out = "OK" THEN rfiles \cup {target} ELSE rfiles
              /\ IF pw = "OK" /\ UploadReturn(out) # "raise"
                 THEN pc' = "process" /\ idx' = idx + 1
                 ELSE pc' = "aborted" /\ idx' = idx
    /\ UNCHANGED <<diffs, ignoreFile, diffFile, files, ignoreList, dir, ftp,
                   segs, k, rdirs, rcwd>>

(* ---------------------------- Ftp.disconnect -------------------------- *)
Disconnect ==
    /\ pc = "disconnect"
    /\ ftp' = "None"
    /\ pc' = "exit"
    /\ log' = Append(log, Sent("disconnect", "quit", <<>>, "OK"))
    /\ UNCHANGED <<diffs, ignoreFile, diffFile, files, ignoreList, dir, idx,
                   segs, k, rdirs, rfiles, rcwd, faults>>

Next ==
    \/ Settings
    \/ Diff
    \/ Ignore
    \/ Connect
    \/ ProcessEnd
    \/ ProcessSkip
    \/ ProcessCwd
    \/ MkdRoot
    \/ MkdEnd
    \/ MkdElemCwd
    \/ MkdElemMake
    \/ MkdElemEnter
    \/ Check
    \/ Delete
    \/ Upload
    \/ Disconnect

Spec == Init /\ [][Next]_vars

(* ------------------- the parser alone, on any text -------------------- *)
ParseAtoms == {"d", " ", "1", NL}
ParseTexts == UNION { [1..n -> ParseAtoms] : n \in 0..MaxText }

InitParse ==
    /\ pc = "diff"
    /\ diffs \in ParseTexts
    /\ ignoreFile = [exists |-> FALSE, lines |-> <<>>]
    /\ diffFile = <<>>
    /\ files = <<>>
    /\ ignoreList = <<SETTINGS, IGNORE, DIFF>>
    /\ dir = <<>>
    /\ ftp = "None"
    /\ idx = 0
    /\ segs = <<>>
    /\ k = 0
    /\ rdirs = {<<SEP>>, ROOT}
    /\ rfiles = {}
    /\ rcwd = <<SEP>>
    /\ faults = 0
    /\ log = <<>>

NextParse == Diff

SpecParse == InitParse /\ [][NextParse]_vars

(* ------------- one Ftp object, called by any client -------------------- *)
\* self._ftp.quit() with self._ftp None: AttributeError
QuitRaises(f) == f = "None"

InitSession ==
    /\ pc = "api"
    /\ diffs = <<>>
    /\ ignoreFile = [exists |-> FALSE, lines |-> <<>>]
    /\ diffFile = <<>>
    /\ files = <<>>
    /\ ignoreList = <<SETTINGS, IGNORE, DIFF>>
    /\ dir = <<>>
    /\ ftp = "None"
    /\ idx = 0
    /\ segs = <<>>
    /\ k = 0
    /\ \E r \in Remotes : rdirs = r.d /\ rfiles = r.f
    /\ rcwd = <<SEP>>
    /\ faults = 0
    /\ log = <<>>

\* f.connect(ftp_dir): the connection is made, the cwd succeeds or fails
ApiConnect ==
    /\ pc = "api"
    /\ Len(log) < MaxCalls
    /\ dir' = PosixJoin(<<SEP>>, FtpDir)
    /\ ftp' = "FTP"
    /\ \E out \in {"OK", "EOther"} :
          /\ rcwd' = IF out = "OK" THEN RemoteNorm(dir') ELSE <<SEP>>
          /\ log' = Append(log, Sent("connect", "cwd", dir', out))
    /\ UNCHANGED <<pc, diffs, ignoreFile, diffFile, files, ignoreList, idx,
                   segs, k, rdirs, rfiles, faults>>

\* f.disconnect()
ApiDisconnect ==
    /\ pc = "api"
    /\ Len(log) < MaxCalls
    /\ IF QuitRaises(ftp)
       THEN /\ log' = Append(log, Sent("disconnect", "quit", <<>>, "raise"))
            /\ UNCHANGED <<ftp, rcwd>>
       ELSE /\ log' = Append(log, Sent("disconnect", "quit", <<>>, "OK"))
            /\ ftp' = "None"
            /\ rcwd' = <<SEP>>
    /\ UNCHANGED <<pc, diffs, ignoreFile, diffFile, files, ignoreList, dir, idx,
                   segs, k, rdirs, rfiles, faults>>

NextSession == ApiConnect \/ ApiDisconnect

SpecSession == InitSession /\ [][NextSession]_vars

(* ====================================================================== *)
(*                              properties                                *)
(* ====================================================================== *)

\* the lines of a text, read off the positions of its line terminators
NLPos(text) == {i \in 1..Len(text) : text[i] = NL}
NumLines(text) == Cardinality(NLPos(text)) + 1
LineAt(text, m) ==
    LET bounds == NLPos(text) \cup {0, Len(text) + 1}
        from == CHOOSE b \in bounds : Cardinality({x \in bounds : x < b}) = m - 1
        to == CHOOSE b \in bounds : Cardinality({x \in bounds : x < b}) = m
    IN  SubSeq(text, from + 1, to - 1)

\* <status><whitespace><path>: one letter, whitespace, a path free of whitespace
WellFormed(line) ==
    \E i \in 2..(Len(line) - 1) :
        /\ line[1] \in Alpha
        /\ \A j \in 2..i : line[j] \in {" ", "\t"}
        /\ \A j \in (i + 1)..Len(line) : line[j] \notin {" ", "\t", NL}
RecordOf(line) ==
    LET i == CHOOSE n \in 2..Len(line) :
                 line[n] \notin {" ", "\t"} /\ \A j \in 2..(n - 1) : line[j] \in {" ", "\t"}
    IN  <<line[1], SubSeq(line, i, Len(line))>>
WellFormedLines(text) == {m \in 1..NumLines(text) : WellFormed(LineAt(text, m))}
NthOf(S, n) == CHOOSE m \in S : Cardinality({x \in S : x <= m}) = n

\* C10: parsing a text yields exactly one record per well-formed line, in the
\* order of the lines, duplicates kept; blank and malformed lines yield
\* nothing and the empty text yields the empty sequence.
C10_ParseYieldsWellFormedLines ==
    pc = "ignore" =>
        /\ Len(files) = Cardinality(WellFormedLines(diffs))
        /\ \A n \in 1..Len(files) :
              files[n] = RecordOf(LineAt(diffs, NthOf(WellFormedLines(diffs), n)))
        /\ (diffs = <<>> => files = <<>>)

\* two records of the same path parsed around a malformed line
C10_Witness ==
    /\ pc = "ignore"
    /\ Len(files) = 2
    /\ files[1] = files[2]
    /\ NumLines(diffs) = 3
    /\ ~WellFormed(LineAt(diffs, 2))

(* -------------------- the engine: reading the history ------------------ *)
\* the directory part and the last component of a record's path
LastSep(p) == IF \E i \in 1..Len(p) : p[i] = SEP
              THEN CHOOSE i \in 1..Len(p) : p[i] = SEP /\ ~\E j \in 1..Len(p) : j > i /\ p[j] = SEP
              ELSE 0
RecDir(p) == SubSeq(p, 1, LastSep(p) - 1)
RecName(p) == SubSeq(p, LastSep(p) + 1, Len(p))
\* the project root joined with the directory of record n
Target(n) == IF RecDir(files[n][2]) = <<>> THEN dir ELSE dir \o <<SEP>> \o RecDir(files[n][2])

IsDataOp(e) == e.op \in {"dele", "stor"}
DataOps == SelectSeq(log, IsDataOp)
OfRecord(e) == e.rec \in 1..Len(files) /\ e.site # "connect" /\ e.site # "disconnect"
Loaded == pc \notin {"settings", "diff", "ignore"}
Ignored(n) == IgnoreFile(files[n], ignoreList) \/ IgnoreDir(files[n], ignoreList)

\* C1: a delete or an upload is sent only while the remote cursor is the
\* project root joined with the record's directory; when the directory
\* resolution left the cursor elsewhere the run is aborted and the record
\* has no delete or upload.
C1_DataOpOnlyAtTarget ==
    /\ \A i \in 1..Len(log) : IsDataOp(log[i]) => log[i].at = Target(log[i].rec)
    /\ \A i \in 1..Len(log) :
          (log[i].site = "check" /\ log[i].out = "OK" /\ log[i].at # Target(log[i].rec))
              => /\ pc = "aborted"
                 /\ i = Len(log)
                 /\ ~\E j \in 1..Len(log) : IsDataOp(log[j]) /\ log[j].rec = log[i].rec

\* a record was uploaded or deleted, then a make-directory walk drifted and
\* the check stopped the run
C1_Witness ==
    /\ pc = "aborted"
    /\ Len(log) > 0
    /\ Last(log).site = "check"
    /\ Last(log).out = "OK"
    /\ Last(log).at # Target(Last(log).rec)
    /\ \E i \in 1..Len(log) : log[i].site = "mkd.cwd" /\ log[i].rec = Last(log).rec
    /\ \E i \in 1..Len(log) : IsDataOp(log[i]) /\ log[i].rec < Last(log).rec

\* the answers after which the run must stop
FatalEntry(e) ==
    \/ e.site = "process" /\ e.out \notin {"OK", "E550"}
    \/ e.site \in {"mkd", "mkd.mkd", "mkd.enter"} /\ e.out # "OK"
    \/ e.site = "check" /\ (e.out # "OK" \/ e.at # Target(e.rec))
    \/ e.site = "upload" /\ e.out # "OK"
    \/ e.site = "delete" /\ e.out \notin {"OK", "E550"}
    \/ e.op = "pwd" /\ e.out # "OK"

\* C2: after a fatal fault (a change-directory failure other than not-found,
\* a failed directory creation, a cursor mismatch, a failed upload, a delete
\* failure other than not-found) no further command is sent, for this record
\* or a later one: the fault is the last entry of the history and the run is
\* aborted.
C2_StopAtFirstFatal ==
    \A i \in 1..Len(log) :
        (OfRecord(log[i]) /\ FatalEntry(log[i])) => (i = Len(log) /\ pc = "aborted")

\* a failed upload of the first record stopped a run of two records
C2_Witness ==
    /\ pc = "aborted"
    /\ Len(files) = 2
    /\ Len(log) > 0
    /\ Last(log).site = "upload"
    /\ Last(log).op = "stor"
    /\ Last(log).out = "EOther"
    /\ Last(log).rec = 1
    /\ ~Ignored(2)

\* C3: a delete answered not-found does not abort the run: the loop goes on
\* with the next record, and what follows in the history belongs to later
\* records, in order.
C3_DeleteNotFoundGoesOn ==
    \A i \in 1..Len(log) :
        (log[i].op = "dele" /\ log[i].out = "E550") =>
            /\ idx > log[i].rec
            /\ (i = Len(log) => pc \in {"process", "disconnect"})
            /\ \A j \in (i + 1)..Len(log) : log[j].rec > log[i].rec
            /\ \A j \in (i + 1)..(Len(log) - 1) : log[j].rec <= log[j + 1].rec

\* a record was uploaded after the delete of an absent file
C3_Witness ==
    \E i \in 1..Len(log) :
        /\ log[i].op = "dele"
        /\ log[i].out = "E550"
        /\ log[i].at \o <<SEP>> \o log[i].arg \notin rfiles
        /\ \E j \in (i + 1)..Len(log) : log[j].op = "stor" /\ log[j].out = "OK"

\* C4: a record is skipped exactly when its path is in the ignore set or its
\* containing directory followed by the separator is in the ignore set.
C4_SkippedIffExactOrDirectory ==
    Loaded =>
        \A n \in 1..Len(files) :
            Skipped(files[n], ignoreList)
                <=> \/ InList(files[n][2], ignoreList)
                    \/ InList(RecDir(files[n][2]) \o <<SEP>>, ignoreList)

\* C5: the step over an ignored record sends no command and leaves the remote
\* cursor, directories and files as they were.
C5_IgnoredRecordNoRemoteOp ==
    [][(pc = "process" /\ idx <= Len(files) /\ Ignored(idx))
          => (log' = log /\ rcwd' = rcwd /\ rdirs' = rdirs /\ rfiles' = rfiles
              /\ idx' = idx + 1 /\ pc' = "process")]_vars

\* an ignored Deleted record was stepped over, by the directory-level test
C5_Witness ==
    /\ pc = "process"
    /\ idx = 2
    /\ files[1][1] = "D"
    /\ IgnoreDir(files[1], ignoreList)
    /\ ~IgnoreFile(files[1], ignoreList)
    /\ Len(log) = 1

\* C6: once the ignore list is loaded it holds the runner's file name, the
\* settings file name, the ignore file name and the changeset file name when
\* one was given; so no delete or upload is sent for the settings file.
C6_ImplicitEntries ==
    Loaded =>
        /\ InList(SELF, ignoreList)
        /\ InList(SETTINGS, ignoreList)
        /\ InList(IGNORE, ignoreList)
        /\ (diffFile # <<>> => InList(diffFile, ignoreList))
        /\ \A i \in 1..Len(log) : IsDataOp(log[i]) => files[log[i].rec][2] # SETTINGS

\* the non-ignored records, by position
NonIgnored == {n \in 1..Len(files) : ~Ignored(n)}

\* C7: commands are sent record after record, and when the loop ends without
\* a fatal fault the deletes and uploads sent are one per non-ignored record,
\* in the order of the records, and none for an ignored record.
C7_OneDataOpPerRecordInOrder ==
    /\ \A i \in 1..(Len(log) - 1) : log[i].rec <= log[i + 1].rec
    /\ pc \in {"disconnect", "exit"} =>
          /\ Len(DataOps) = Cardinality(NonIgnored)
          /\ \A n \in 1..Len(DataOps) : DataOps[n].rec = NthOf(NonIgnored, n)

\* a finished run over an ignored record and two records of the same path
C7_Witness ==
    /\ pc = "exit"
    /\ Len(files) = 3
    /\ Cardinality(NonIgnored) = 2
    /\ \E m, n \in NonIgnored : m < n /\ files[m][2] = files[n][2]

\* C8: the command sent for a record is delete(filename) when its status is D
\* and upload(path, filename) for any other status, filename being the last
\* component of the path; every record that passed the check gets it.
C8_DispatchByStatus ==
    /\ \A i \in 1..Len(log) :
          IsDataOp(log[i]) =>
              IF files[log[i].rec][1] = "D"
              THEN log[i].op = "dele" /\ log[i].arg = RecName(files[log[i].rec][2])
              ELSE /\ log[i].op = "stor"
                   /\ log[i].arg = <<files[log[i].rec][2], RecName(files[log[i].rec][2])>>
    /\ \A i \in 1..(Len(log) - 2) :
          (log[i].site = "check" /\ log[i + 1].out = "OK")
              => IsDataOp(log[i + 2]) /\ log[i + 2].rec = log[i].rec

\* a delete and an upload in one run, both for records inside a directory
C8_Witness ==
    /\ \E i \in 1..Len(log) :
          log[i].op = "dele" /\ RecDir(files[log[i].rec][2]) # <<>>
    /\ \E i \in 1..Len(log) :
          log[i].op = "stor" /\ RecDir(files[log[i].rec][2]) # <<>>

\* C9: a record whose status letter is the lowercase d is deleted like one
\* with D, and is not uploaded.
C9_LowercaseIsDeleted ==
    \A i \in 1..Len(log) :
        (IsDataOp(log[i]) /\ files[log[i].rec][1] = "d") => log[i].op = "dele"


(* ----------------------- the make-directory walk ---------------------- *)
\* the segments of the directory of record n, and the project root joined
\* with the first m of them
RECURSIVE Segments(_)
Segments(p) ==
    IF p = <<>> THEN <<>>
    ELSE IF \E i \in 1..Len(p) : p[i] = SEP
    THEN LET i == CHOOSE c \in 1..Len(p) : p[c] = SEP /\ \A j \in 1..(c - 1) : p[j] # SEP
         IN  <<SubSeq(p, 1, i - 1)>> \o Segments(SubSeq(p, i + 1, Len(p)))
    ELSE <<p>>
RECURSIVE PrefixDir(_, _)
PrefixDir(n, m) ==
    IF m = 0 THEN dir ELSE PrefixDir(n, m - 1) \o <<SEP>> \o Segments(RecDir(files[n][2]))[m]
Depth(n) == Len(Segments(RecDir(files[n][2])))
\* the directory a logged MKD names
Made(e) == IF e.at = <<SEP>> THEN e.at \o e.arg ELSE e.at \o <<SEP>> \o e.arg
Finished(n) == idx > n \/ pc \in {"disconnect", "exit"}
MkdsOf(n) == {i \in 1..Len(log) : log[i].op = "mkd" /\ log[i].rec = n}

\* C11: when the change into a record's directory is answered not-found and
\* the remote side answers without failure, the walk creates the missing
\* segments parent first from the project root, the check finds the cursor
\* at the project root joined with the directory, and the record's delete or
\* upload is sent.
C11_MissingDirectoryIsCreated ==
    faults = 0 =>
        \A i \in 1..Len(log) :
            (log[i].site = "process" /\ log[i].out = "E550") =>
                LET n == log[i].rec IN
                /\ pc # "aborted"
                /\ \A j \in MkdsOf(n) :
                      /\ log[j].out = "OK"
                      /\ \E m \in 1..Depth(n) :
                            /\ Made(log[j]) = PrefixDir(n, m)
                            /\ \A h \in MkdsOf(n) :
                                  h > j => \E m2 \in (m + 1)..Depth(n) :
                                               Made(log[h]) = PrefixDir(n, m2)
                /\ \A j \in 1..Len(log) :
                      (log[j].site = "check" /\ log[j].rec = n) => log[j].at = Target(n)
                /\ Finished(n) =>
                      /\ \A m \in 0..Depth(n) : PrefixDir(n, m) \in rdirs
                      /\ \E j \in 1..Len(log) : j > i /\ IsDataOp(log[j]) /\ log[j].rec = n

\* a record two directories deep, neither on the remote side: both were
\* created, the outer one first, and the file was uploaded
C11_Witness ==
    /\ faults = 0
    /\ \E i, j, h \in 1..Len(log) :
          /\ i < j /\ j < h
          /\ log[i].op = "mkd" /\ log[j].op = "mkd" /\ log[h].op = "stor"
          /\ log[i].rec = log[j].rec /\ log[j].rec = log[h].rec
          /\ Made(log[i]) = PrefixDir(log[i].rec, 1)
          /\ Made(log[j]) = PrefixDir(log[i].rec, 2)
          /\ log[h].at = Made(log[j])
          /\ log[h].out = "OK"


\* the remote directories before the run: those not made by a logged MKD
CreatedDirs == {Made(log[i]) : i \in {j \in 1..Len(log) : log[j].op = "mkd" /\ log[j].out = "OK"}}
AllTargetsExisted ==
    \A n \in 1..Len(files) : ~Ignored(n) => Target(n) \in (rdirs \ CreatedDirs)

\* C12: a run against a remote side that already has every target directory,
\* answering without failure, sends no make-directory command, is not
\* aborted, and leaves the remote directories as they were; and a finished
\* run without failure leaves every target directory in place, so that a
\* second run meets them all.
C12_ExistingDirectoriesUntouched ==
    (Loaded /\ faults = 0) =>
        /\ AllTargetsExisted =>
              /\ \A i \in 1..Len(log) : log[i].op # "mkd" /\ log[i].site # "mkd"
              /\ CreatedDirs = {}
              /\ (\E i \in 1..Len(log) : log[i].site = "process") => pc # "aborted"
        /\ pc = "exit" => \A n \in 1..Len(files) : ~Ignored(n) => Target(n) \in rdirs

\* a finished run over a record two directories deep and one in the project
\* root, all directories being there from the start
C12_Witness ==
    /\ pc = "exit"
    /\ faults = 0
    /\ AllTargetsExisted
    /\ \E n \in 1..Len(files) : ~Ignored(n) /\ Depth(n) = 2
    /\ \E n \in 1..Len(files) : ~Ignored(n) /\ Depth(n) = 0
    /\ Len(DataOps) >= 2


\* C13: disconnect() on a session that is not connected, before connect or
\* after a disconnect, raises no error and leaves the session as it was.
C13_DisconnectIdempotent ==
    \A i \in 1..Len(log) : log[i].site = "disconnect" => log[i].out # "raise"


\* the session was opened: the first command of the history is the change
\* into the project directory, answered OK
ConnectSucceeded == Len(log) > 0 /\ log[1].site = "connect" /\ log[1].out = "OK"

\* C14: when the settings section is missing or connect fails (connection,
\* login or the change into the project directory) the run is aborted and no
\* command is ever sent for a record.
C14_NoRecordOpWithoutSession ==
    ~ConnectSucceeded =>
        /\ \A i \in 1..Len(log) : log[i].site = "connect"
        /\ pc \in {"settings", "diff", "ignore", "connect", "aborted"}
        /\ Len(log) <= 1

\* the change into the project directory failed with records waiting
C14_Witness ==
    /\ pc = "aborted"
    /\ ftp = "FTP"
    /\ Len(log) = 1
    /\ log[1].site = "connect"
    /\ log[1].out = "EOther"
    /\ \E n \in 1..Len(files) : ~Ignored(n)


\* the per-segment changes of directory the walk of record n sent
IsWalkCwd(e) == e.site = "mkd.cwd"
WalkArgs(n) ==
    LET sel == SelectSeq(log, LAMBDA e : IsWalkCwd(e) /\ e.rec = n)
    IN  [i \in 1..Len(sel) |-> sel[i].arg]
WalkSegments(n) ==
    IF RecDir(files[n][2]) = <<>> THEN << <<>> >> ELSE Segments(RecDir(files[n][2]))
Prefix(s, t) == Len(s) <= Len(t) /\ s = SubSeq(t, 1, Len(s))

\* C15: in the walk a segment is created only after the change into it was
\* answered not-found; after any other failure of that change nothing is
\* created for the segment, the cursor stays, the walk goes on with the next
\* segment and the run is not aborted by it; a failed creation, a failed
\* entry after the creation and a failed change to the project directory
\* abort the run.
C15_CreateOnlyOnNotFound ==
    /\ \A i \in 1..Len(log) :
          log[i].op = "mkd" =>
              /\ i > 1
              /\ log[i - 1].site = "mkd.cwd"
              /\ log[i - 1].out = "E550"
              /\ log[i - 1].arg = log[i].arg
              /\ log[i - 1].rec = log[i].rec
    /\ \A i \in 1..Len(log) :
          (log[i].site = "mkd.cwd" /\ log[i].out \notin {"OK", "E550"}) =>
              /\ (i = Len(log) => pc \in {"mkd_loop", "check"})
              /\ (i < Len(log) =>
                     /\ log[i + 1].site \in {"mkd.cwd", "check"}
                     /\ log[i + 1].rec = log[i].rec
                     /\ log[i + 1].at = log[i].at)
    /\ \A i \in 1..Len(log) :
          log[i].site \in {"mkd", "mkd.cwd", "mkd.mkd", "mkd.enter"} =>
              /\ Prefix(WalkArgs(log[i].rec), WalkSegments(log[i].rec))
              /\ (\E j \in 1..Len(log) : log[j].site = "check" /\ log[j].rec = log[i].rec)
                    => WalkArgs(log[i].rec) = WalkSegments(log[i].rec)
    /\ \A i \in 1..Len(log) :
          (log[i].site \in {"mkd", "mkd.mkd", "mkd.enter"} /\ log[i].out # "OK")
              => (i = Len(log) /\ pc = "aborted")

\* the change into the first of two segments failed with another error: no
\* MKD for it, and the walk tried the second segment
C15_Witness ==
    \E i \in 1..(Len(log) - 1) :
        /\ log[i].site = "mkd.cwd"
        /\ log[i].out = "EOther"
        /\ log[i + 1].site = "mkd.cwd"
        /\ log[i + 1].arg # log[i].arg
        /\ log[i + 1].rec = log[i].rec


\* C16: every directory the walk creates is the project root joined with the
\* first segments of the record's directory, whatever the answers were.
C16_CreatedDirsArePrefixes ==
    \A i \in 1..Len(log) :
        (log[i].op = "mkd" /\ log[i].out = "OK") =>
            \E m \in 1..Depth(log[i].rec) : Made(log[i]) = PrefixDir(log[i].rec, m)

\* the remote file a record names, and the last non-ignored record of a path
RemoteFile(n) == dir \o <<SEP>> \o files[n][2]
LastFor(n) == \A m \in NonIgnored : files[m][2] = files[n][2] => m <= n
Touched(e) == e.at \o <<SEP>> \o (IF e.op = "stor" THEN e.arg[2] ELSE e.arg)

\* C17: when all records are processed, the remote file of every non-ignored
\* record's path is absent if the last such record has status D and present
\* otherwise, and no other remote file was stored or deleted.
C17_RemoteMirrorsChangeset ==
    pc \in {"disconnect", "exit"} =>
        /\ \A n \in NonIgnored :
              LastFor(n) => (RemoteFile(n) \in rfiles <=> files[n][1] # "D")
        /\ \A i \in 1..Len(log) :
              (IsDataOp(log[i]) /\ log[i].out = "OK") =>
                  Touched(log[i]) = RemoteFile(log[i].rec)

\* C18: a record in the project root, its path having no directory part, is
\* skipped only when its path itself is in the ignore list, whatever the
\* ignore file holds.
C18_RootRecordOnlyByExactPath ==
    Loaded =>
        \A n \in 1..Len(files) :
            (LastSep(files[n][2]) = 0 /\ Skipped(files[n], ignoreList))
                => InList(files[n][2], ignoreList)

\* C19: a run whose connect succeeded ends with the session disconnected,
\* whether all records were processed or a fatal fault aborted the run.
C19_EndsDisconnected ==
    (ConnectSucceeded /\ pc \in {"exit", "aborted"}) => ftp = "None"

====
